---- MODULE Spec2Model ----
(***************************************************************************)
(* Model of main.py: a chat bot that validates an address for the asset    *)
(* the user selected and queries the matching chain backend.               *)
(*                                                                         *)
(* Each user has one submission slot.  A submission runs handle_address    *)
(* up to its first suspension, is handed to a worker of the executor, the  *)
(* worker runs the selected sync_check_* client one backend call at a      *)
(* time, and the handler finally replies with the client's (ok, info).     *)
(* Spec is the host as __main__ builds it, which hands text messages to    *)
(* handle_address one at a time; ConcSpec is a host that lets the users'   *)
(* submissions overlap at every suspension point.  The default executor    *)
(* has more workers than the model has users, so a queued job only waits   *)
(* for its worker to be scheduled.                                         *)
(* Texts are sequences of one-character strings, so that the regular       *)
(* expressions are matched character by character as re.fullmatch does.    *)
(***************************************************************************)
EXTENDS Integers, Sequences, FiniteSets, TLC

\* ------------------------------------------------------------------ bounds
NUsers == 2
MaxAmount == 1

Users == 1..NUsers
Amounts == 0..MaxAmount

\* ------------------------------------------------------------ configuration
\* The five callback_data values of the /start keyboard.
Tokens == {"BNB", "ETH", "USDT", "BTC", "TON"}
NoChoice == "-"

BSC_RPC == "BSC_RPC"
ETH_RPC == "ETH_RPC"
USDT_BSC_CONTRACT == "USDT_BSC_CONTRACT"
BTC_API_BASE == "BTC_API_BASE"
TON_API_BASE == "TON_API_BASE"
NoArg == ""

\* The web3 builds the import at the top of main.py can meet: no web3 at all,
\* one that only has the camelCase names (v5), one that only has the snake_case
\* names (v6), and one that has both spellings (snake_case added, camelCase
\* deprecated but still present).
Web3Builds == {"none", "v5", "both", "v6"}
WEB3_AVAILABLE(build) == build # "none"
HasSnake(build) == build \in {"both", "v6"}
HasCamel(build) == build \in {"v5", "both"}

\* ------------------------------------------------------------------- texts
Rep(c, n) == [i \in 1..n |-> c]

Digits == {"0", "1", "2", "3", "4", "5", "6", "7", "8", "9"}
Lower == {"a", "b", "c", "d", "e", "f", "g", "h", "i", "j", "k", "l", "m",
          "n", "o", "p", "q", "r", "s", "t", "u", "v", "w", "x", "y", "z"}
Upper == {"A", "B", "C", "D", "E", "F", "G", "H", "I", "J", "K", "L", "M",
          "N", "O", "P", "Q", "R", "S", "T", "U", "V", "W", "X", "Y", "Z"}
Whitespace == {" ", "\n", "\t"}

\* [0-9a-fA-F]
HexClass == Digits \cup {"a", "b", "c", "d", "e", "f"} \cup {"A", "B", "C", "D", "E", "F"}
\* BtcClass as the Base58 alphabet: without 0, I, O and l.
BtcClass_Base58 == (Lower \ {"l"}) \cup (Upper \ {"I", "O"}) \cup (Digits \ {"0"})
\* [a-zA-HJ-NP-Z0-9]
BtcClass == Lower \cup (Upper \ {"I", "O"}) \cup Digits
\* [A-Za-z0-9_-]
TonClass == Upper \cup Lower \cup Digits \cup {"_", "-"}

AllIn(s, from, class) == \A i \in from..Len(s) : s[i] \in class
StartsWith(s, p) == Len(s) >= Len(p) /\ SubSeq(s, 1, Len(p)) = p

\* RE_EVM with {40,} for {40}.
RE_EVM_AtLeast40(s) == /\ StartsWith(s, <<"0", "x">>)
                       /\ Len(s) - 2 >= 40
                       /\ AllIn(s, 3, HexClass)

\* re.compile(r"^0x[0-9a-fA-F]{40}$").fullmatch
RE_EVM(s) == /\ StartsWith(s, <<"0", "x">>)
             /\ Len(s) - 2 = 40
             /\ AllIn(s, 3, HexClass)

\* re.compile(r"^(bc1|[13])[a-zA-HJ-NP-Z0-9]{25,39}$").fullmatch: the prefix
\* alternatives are tried in turn, the tail must be 25 to 39 class characters.
BtcTail(s, plen) == /\ Len(s) - plen >= 25
                    /\ Len(s) - plen <= 39
                    /\ AllIn(s, plen + 1, BtcClass)
RE_BTC(s) == \/ StartsWith(s, <<"b", "c", "1">>) /\ BtcTail(s, 3)
             \/ StartsWith(s, <<"1">>) /\ BtcTail(s, 1)
             \/ StartsWith(s, <<"3">>) /\ BtcTail(s, 1)

\* re.compile(r"^(EQ|UQ)[A-Za-z0-9_-]{46}$").fullmatch
RE_TON(s) == /\ StartsWith(s, <<"E", "Q">>) \/ StartsWith(s, <<"U", "Q">>)
             /\ Len(s) - 2 = 46
             /\ AllIn(s, 3, TonClass)

\* str.strip(): drops leading and trailing whitespace.
RECURSIVE LStrip(_)
LStrip(s) == IF s # <<>> /\ Head(s) \in Whitespace THEN LStrip(Tail(s)) ELSE s
RECURSIVE RStrip(_)
RStrip(s) == IF s # <<>> /\ s[Len(s)] \in Whitespace
             THEN RStrip(SubSeq(s, 1, Len(s) - 1)) ELSE s
Strip(s) == RStrip(LStrip(s))

\* FormatReject without its TON check.
FormatReject_NoTon(tok, addr) ==
    IF tok \in {"BNB", "ETH", "USDT"} /\ ~RE_EVM(addr) THEN "Invalid EVM-style address format"
    ELSE IF tok = "BTC" /\ ~RE_BTC(addr) THEN "Invalid BTC address format"
    ELSE ""

\* The three format checks of handle_address, in the order of the code: the
\* first reply that applies, or "" when the text passes for this token.
FormatReject(tok, addr) ==
    IF tok \in {"BNB", "ETH", "USDT"} /\ ~RE_EVM(addr) THEN "Invalid EVM-style address format"
    ELSE IF tok = "BTC" /\ ~RE_BTC(addr) THEN "Invalid BTC address format"
    ELSE IF tok = "TON" /\ ~RE_TON(addr) THEN "Invalid TON address format"
    ELSE ""

\* Sample message texts.
EvmGood == <<"0", "x">> \o Rep("a", 20) \o Rep("F", 20)
BtcGood == <<"1">> \o Rep("A", 25)
TonGood == <<"E", "Q">> \o Rep("_", 46)
Junk == <<"n", "o", "t", "-", "v", "a", "l", "i", "d">>
Texts == {EvmGood, BtcGood, <<" ">> \o TonGood \o <<"\n">>, Junk}

\* ---------------------------------------------------------------- messages
\* A reply: ok is the tick or cross of the final reply, cat the fixed part of
\* the text, err the text of the exception interpolated into it ("" if none),
\* val the numbers interpolated into it.
Msg(ok, cat, err, val) == [ok |-> ok, cat |-> cat, err |-> err, val |-> val]
NoResult == Msg(FALSE, "", "", <<>>)
StartFirst == Msg(FALSE, "Please use /start first and select a token.", "", <<>>)
Checking == Msg(FALSE, "Checking... This may take a second.", "", <<>>)
Invalid(cat) == Msg(FALSE, cat, "", <<>>)

\* -------------------------------------------------------------------- JSON
\* A parsed body: t names the JSON type; an object carries its members o, a
\* number its value n, a string its characters s.  "garbage" is a body that
\* r.json() cannot parse.
JGarbage == [t |-> "garbage"]
JArr == [t |-> "arr"]
JNull == [t |-> "null"]
JNum(n) == [t |-> "num", n |-> n]
JStr(s) == [t |-> "str", s |-> s]
JObj(o) == [t |-> "obj", o |-> o]
NoMembers == [k \in {} |-> JNull]
\* dict.get(key, default)
Get(o, key, default) == IF key \in DOMAIN o THEN o[key] ELSE default

DigitVal(c) == CHOOSE n \in 0..9 : <<"0", "1", "2", "3", "4", "5", "6", "7", "8", "9">>[n + 1] = c
RECURSIVE DecVal(_)
DecVal(s) == IF s = <<>> THEN 0 ELSE 10 * DecVal(SubSeq(s, 1, Len(s) - 1)) + DigitVal(s[Len(s)])
\* int(x): a number is itself, a string of decimal digits is its value, anything
\* else raises.
IntRaises(x) == ~ \/ x.t = "num"
                  \/ x.t = "str" /\ x.s # <<>> /\ \A i \in 1..Len(x.s) : x.s[i] \in Digits
IntOf(x) == IF x.t = "num" THEN x.n ELSE DecVal(x.s)

\* ------------------------------------------------------- backend outcomes
\* What a backend call hands back to the client: exc is the text of the
\* exception it raised ("" when it returned), v the value a web3 call returned,
\* status and body the HTTP response of a REST call.  fault names what went
\* wrong on the wire when the library reports it as an exception or as a False
\* probe: "unreachable", "timeout", or "malformed" (a reply that is not what the
\* protocol promises, an error reply of the node included).
NetFaults == {"unreachable", "malformed"}
Raised(f) == [fault |-> f, exc |-> f, v |-> 0, status |-> 0, body |-> JNull]
Returned(v) == [fault |-> "none", exc |-> "", v |-> v, status |-> 0, body |-> JNull]
ProbeFalse(f) == [fault |-> f, exc |-> "", v |-> 0, status |-> 0, body |-> JNull]
ProbeTrue == Returned(1)
Response(status, body) == [fault |-> "none", exc |-> "", v |-> 0, status |-> status, body |-> body]

BtcBodies ==
    {JGarbage, JArr, JObj(NoMembers),
     JObj([chain_stats |-> JNum(0)]),
     JObj([chain_stats |-> JObj(NoMembers)]),
     JObj([chain_stats |-> JObj([funded_txo_sum |-> JNum(MaxAmount)])]),
     JObj([chain_stats |-> JObj([funded_txo_sum |-> JNull, spent_txo_sum |-> JNum(0)])])}
    \cup {JObj([chain_stats |-> JObj([funded_txo_sum |-> JNum(f), spent_txo_sum |-> JNum(s)])]) :
            f \in Amounts, s \in Amounts}
TonBodies ==
    {JGarbage, JArr, JObj(NoMembers),
     JObj([ok |-> JNum(1), result |-> JNull]),
     JObj([ok |-> JNum(1), result |-> JStr(<<"1", "2">>)]),
     JObj([ok |-> JNum(1), result |-> JStr(<<"x">>)]),
     JObj([ok |-> JNum(1), result |-> JArr])}
    \cup {JObj([ok |-> JNum(1), result |-> JNum(n)]) : n \in Amounts}
HttpErrors == {500}

IsProbe(op) == op \in {"is_connected", "isConnected"}
\* The outcomes of a backend call that the backend answers in time.
Answers(op) ==
    IF IsProbe(op)
    THEN {ProbeTrue} \cup {ProbeFalse(f) : f \in NetFaults} \cup {Raised(f) : f \in NetFaults}
    ELSE IF op = "GET btc"
    THEN {Raised("unreachable")} \cup {Response(200, b) : b \in BtcBodies}
         \cup {Response(c, JGarbage) : c \in HttpErrors}
    ELSE IF op = "GET ton"
    THEN {Raised("unreachable")} \cup {Response(200, b) : b \in TonBodies}
         \cup {Response(c, JGarbage) : c \in HttpErrors}
    ELSE {Returned(v) : v \in Amounts} \cup {Raised(f) : f \in NetFaults}
\* The outcomes of a backend call whose timeout=10 expires.
Expiries(op) ==
    IF IsProbe(op) THEN {ProbeFalse("timeout"), Raised("timeout")} ELSE {Raised("timeout")}

\* ----------------------------------------------------------------- clients
\* A client runs from one backend call to the next: a step either waits on
\* the backend call `at` (keeping the local `bal`), returns (ok, info), or
\* lets an exception out of the function.
Wait(op, bal) == [ret |-> FALSE, esc |-> FALSE, at |-> op, bal |-> bal, res |-> NoResult]
Ret(msg) == [ret |-> TRUE, esc |-> FALSE, at |-> "none", bal |-> 0, res |-> msg]
Escape == [ret |-> TRUE, esc |-> TRUE, at |-> "none", bal |-> 0, res |-> NoResult]
Fail(cat, err) == Ret(Msg(FALSE, cat, err, <<>>))
CannotConnect == Fail("Cannot connect to RPC node", "")

\* to_checksum(addr): either spelling of the conversion may raise (ValueError).
ToChecksumRaises == {FALSE, TRUE}

\* Probe without `if not connected`: only a raising probe stops the client.
Probe_Unchecked(build, at, out, connected) ==
    IF at = "start"
    THEN IF HasSnake(build) THEN {Wait("is_connected", 0)}
         ELSE IF HasCamel(build) THEN {Wait("isConnected", 0)}
         ELSE {CannotConnect}
    ELSE IF at = "is_connected" /\ out.exc # ""
    THEN IF HasCamel(build) THEN {Wait("isConnected", 0)} ELSE {CannotConnect}
    ELSE IF out.exc # "" THEN {CannotConnect}
    ELSE connected

\* The liveness probe of both EVM clients: w3.is_connected(), and on any
\* exception w3.isConnected(); a spelling the build lacks raises AttributeError
\* without reaching the node.  `connected` is the set of steps taken when the
\* probe says connected.
Probe(build, at, out, connected) ==
    IF at = "start"
    THEN IF HasSnake(build) THEN {Wait("is_connected", 0)}
         ELSE IF HasCamel(build) THEN {Wait("isConnected", 0)}
         ELSE {CannotConnect}
    ELSE IF at = "is_connected" /\ out.exc # ""
    THEN IF HasCamel(build) THEN {Wait("isConnected", 0)} ELSE {CannotConnect}
    ELSE IF out.exc # "" \/ out.v = 0 THEN {CannotConnect}
    ELSE connected

\* sync_check_rpc_native that returns after get_balance, without the
\* transaction count.
sync_check_rpc_native_NoCount(build, at, bal, out) ==
    IF at = "start" /\ ~WEB3_AVAILABLE(build)
    THEN {Fail("web3 not installed in environment", "")}
    ELSE IF at = "start"
    THEN {Fail("web3 provider init error", "init")} \cup Probe(build, at, out, {})
    ELSE IF IsProbe(at)
    THEN Probe(build, at, out,
               {IF raises THEN Fail("RPC query error", "checksum") ELSE Wait("get_balance", 0) :
                    raises \in ToChecksumRaises})
    ELSE IF out.exc # "" THEN {Fail("RPC query error", out.exc)}
    ELSE {Ret(Msg(TRUE, "Balance (native), txs", "", <<out.v, 0>>))}

\* sync_check_rpc_native resumed at `at` ("start": called) with the outcome of
\* the backend call it was waiting on: the set of its possible next steps.
sync_check_rpc_native(build, at, bal, out) ==
    IF at = "start" /\ ~WEB3_AVAILABLE(build)
    THEN {Fail("web3 not installed in environment", "")}
    ELSE IF at = "start"
    THEN {Fail("web3 provider init error", "init")} \cup Probe(build, at, out, {})
    ELSE IF IsProbe(at)
    THEN Probe(build, at, out,
               {IF raises THEN Fail("RPC query error", "checksum") ELSE Wait("get_balance", 0) :
                    raises \in ToChecksumRaises})
    ELSE IF out.exc # "" THEN {Fail("RPC query error", out.exc)}
    ELSE IF at = "get_balance" THEN {Wait("get_transaction_count", out.v)}
    ELSE {Ret(Msg(TRUE, "Balance (native), txs", "", <<bal, out.v>>))}

sync_check_rpc_token(build, at, bal, out) ==
    IF at = "start" /\ ~WEB3_AVAILABLE(build)
    THEN {Fail("web3 not installed in environment", "")}
    ELSE IF at = "start"
    THEN {Fail("web3 provider init error", "init")} \cup Probe(build, at, out, {})
    ELSE IF IsProbe(at)
    THEN Probe(build, at, out,
               {IF raises THEN Fail("Token query error", "checksum") ELSE Wait("balanceOf", 0) :
                    raises \in ToChecksumRaises})
    ELSE IF out.exc # "" THEN {Fail("Token query error", out.exc)}
    ELSE {Ret(Msg(TRUE, "Token balance (raw), display approx", "", <<out.v, out.v>>))}

\* sync_check_btc without the status check: every response is parsed.
sync_check_btc_NoStatus(at, out) ==
    IF at = "start" THEN {Wait("GET btc", 0)}
    ELSE IF out.exc # "" THEN {Fail("BTC API error", out.exc)}
    ELSE IF out.body.t = "garbage" THEN {Fail("BTC API error", "JSONDecodeError")}
    ELSE IF out.body.t # "obj" THEN {Fail("BTC API error", "AttributeError")}
    ELSE LET cs == Get(out.body.o, "chain_stats", JObj(NoMembers)) IN
         IF cs.t # "obj" THEN {Fail("BTC API error", "AttributeError")}
         ELSE LET funded == Get(cs.o, "funded_txo_sum", JNum(0))
                  spent == Get(cs.o, "spent_txo_sum", JNum(0)) IN
              IF funded.t # "num" \/ spent.t # "num" THEN {Fail("BTC API error", "TypeError")}
              ELSE {Ret(Msg(TRUE, "Balance BTC", "", <<funded.n - spent.n>>))}

\* sync_check_btc that treats a negative difference as an error.
sync_check_btc_Unsigned(at, out) ==
    IF at = "start" THEN {Wait("GET btc", 0)}
    ELSE IF out.exc # "" THEN {Fail("BTC API error", out.exc)}
    ELSE IF out.status # 200 THEN {Ret(Msg(FALSE, "BTC API HTTP", "", <<out.status>>))}
    ELSE IF out.body.t = "garbage" THEN {Fail("BTC API error", "JSONDecodeError")}
    ELSE IF out.body.t # "obj" THEN {Fail("BTC API error", "AttributeError")}
    ELSE LET cs == Get(out.body.o, "chain_stats", JObj(NoMembers)) IN
         IF cs.t # "obj" THEN {Fail("BTC API error", "AttributeError")}
         ELSE LET funded == Get(cs.o, "funded_txo_sum", JNum(0))
                  spent == Get(cs.o, "spent_txo_sum", JNum(0)) IN
              IF funded.t # "num" \/ spent.t # "num" THEN {Fail("BTC API error", "TypeError")}
              ELSE IF funded.n < spent.n THEN {Fail("BTC API error", "negative balance")}
              ELSE {Ret(Msg(TRUE, "Balance BTC", "", <<funded.n - spent.n>>))}

sync_check_btc(at, out) ==
    IF at = "start" THEN {Wait("GET btc", 0)}
    ELSE IF out.exc # "" THEN {Fail("BTC API error", out.exc)}
    ELSE IF out.status # 200 THEN {Ret(Msg(FALSE, "BTC API HTTP", "", <<out.status>>))}
    ELSE IF out.body.t = "garbage" THEN {Fail("BTC API error", "JSONDecodeError")}
    ELSE IF out.body.t # "obj" THEN {Fail("BTC API error", "AttributeError")}
    ELSE LET cs == Get(out.body.o, "chain_stats", JObj(NoMembers)) IN
         IF cs.t # "obj" THEN {Fail("BTC API error", "AttributeError")}
         ELSE LET funded == Get(cs.o, "funded_txo_sum", JNum(0))
                  spent == Get(cs.o, "spent_txo_sum", JNum(0)) IN
              IF funded.t # "num" \/ spent.t # "num" THEN {Fail("BTC API error", "TypeError")}
              ELSE {Ret(Msg(TRUE, "Balance BTC", "", <<funded.n - spent.n>>))}

\* sync_check_ton with the try covering only the request: what r.json() and
\* int() raise leaves the function.
sync_check_ton_NarrowTry(at, out) ==
    IF at = "start" THEN {Wait("GET ton", 0)}
    ELSE IF out.exc # "" THEN {Fail("TON API error", out.exc)}
    ELSE IF out.status # 200 THEN {Ret(Msg(FALSE, "TON API HTTP", "", <<out.status>>))}
    ELSE IF out.body.t = "garbage" THEN {Escape}
    ELSE IF out.body.t # "obj" THEN {Escape}
    ELSE LET result == Get(out.body.o, "result", JNull) IN
         IF result.t = "null" THEN {Fail("TON API result missing", "")}
         ELSE IF IntRaises(result) THEN {Escape}
         ELSE {Ret(Msg(TRUE, "Balance TON", "", <<IntOf(result)>>))}

sync_check_ton(at, out) ==
    IF at = "start" THEN {Wait("GET ton", 0)}
    ELSE IF out.exc # "" THEN {Fail("TON API error", out.exc)}
    ELSE IF out.status # 200 THEN {Ret(Msg(FALSE, "TON API HTTP", "", <<out.status>>))}
    ELSE IF out.body.t = "garbage" THEN {Fail("TON API error", "JSONDecodeError")}
    ELSE IF out.body.t # "obj" THEN {Fail("TON API error", "AttributeError")}
    ELSE LET result == Get(out.body.o, "result", JNull) IN
         IF result.t = "null" THEN {Fail("TON API result missing", "")}
         ELSE IF IntRaises(result) THEN {Fail("TON API error", "ValueError")}
         ELSE {Ret(Msg(TRUE, "Balance TON", "", <<IntOf(result)>>))}

\* --------------------------------------------------------------- dispatch
\* partial(func, *args): the client and the arguments handle_address binds.
Job(client, address, rpc_url, token_contract) ==
    [client |-> client, address |-> address, rpc_url |-> rpc_url,
     token_contract |-> token_contract]
NoJob == Job("none", <<>>, NoArg, NoArg)

\* Dispatch with the ETH branch bound to the BSC endpoint.
Dispatch_EthOnBsc(tok, addr) ==
    IF tok = "BNB" THEN Job("sync_check_rpc_native", addr, BSC_RPC, NoArg)
    ELSE IF tok = "ETH" THEN Job("sync_check_rpc_native", addr, BSC_RPC, NoArg)
    ELSE IF tok = "USDT" THEN Job("sync_check_rpc_token", addr, BSC_RPC, USDT_BSC_CONTRACT)
    ELSE IF tok = "BTC" THEN Job("sync_check_btc", addr, NoArg, NoArg)
    ELSE IF tok = "TON" THEN Job("sync_check_ton", addr, NoArg, NoArg)
    ELSE NoJob

\* The if/elif chain of handle_address that picks the client for a token.
Dispatch(tok, addr) ==
    IF tok = "BNB" THEN Job("sync_check_rpc_native", addr, BSC_RPC, NoArg)
    ELSE IF tok = "ETH" THEN Job("sync_check_rpc_native", addr, ETH_RPC, NoArg)
    ELSE IF tok = "USDT" THEN Job("sync_check_rpc_token", addr, BSC_RPC, USDT_BSC_CONTRACT)
    ELSE IF tok = "BTC" THEN Job("sync_check_btc", addr, NoArg, NoArg)
    ELSE IF tok = "TON" THEN Job("sync_check_ton", addr, NoArg, NoArg)
    ELSE NoJob

\* The steps the job's function can take from `at`.
Run(build, j, at, bal, out) ==
    IF j.client = "sync_check_rpc_native" THEN sync_check_rpc_native(build, at, bal, out)
    ELSE IF j.client = "sync_check_rpc_token" THEN sync_check_rpc_token(build, at, bal, out)
    ELSE IF j.client = "sync_check_btc" THEN sync_check_btc(at, out)
    ELSE sync_check_ton(at, out)

\* The endpoint a client's backend calls go to: the rpc_url argument of the
\* EVM clients, the module-level base URL of the REST clients.
Endpoint(j) ==
    IF j.client = "sync_check_btc" THEN BTC_API_BASE
    ELSE IF j.client = "sync_check_ton" THEN TON_API_BASE
    ELSE j.rpc_url

\* Backend calls made without a timeout.
HasTimeout_Never(op) == FALSE

\* Every backend call carries timeout=10.
HasTimeout(op) == TRUE

\* ------------------------------------------------------------------ state
VARIABLES
    web3,           \* the web3 build found at import (fixed for the process)
    user_choice,    \* user id -> selected token, NoChoice when the key is absent
    pc,             \* where each user's submission is
    token,          \* handle_address: local token
    address,        \* handle_address: local address
    job,            \* the partial handed to the executor
    at,             \* the backend call the client is waiting on
    bal,            \* sync_check_rpc_native: local balance
    calls,          \* the backend calls this submission has made, in order
    cause,          \* the fault of this submission's latest backend call
    result,         \* the (ok, info) the client returned
    sent            \* the replies to this submission, in order

vars == <<web3, user_choice, pc, token, address, job, at, bal, calls, cause, result, sent>>

\* The body the REST interfaces promise: the members the clients read.
BtcExpected(body) ==
    /\ body.t = "obj"
    /\ "chain_stats" \in DOMAIN body.o
    /\ body.o.chain_stats.t = "obj"
    /\ \A k \in {"funded_txo_sum", "spent_txo_sum"} :
          k \in DOMAIN body.o.chain_stats.o /\ body.o.chain_stats.o[k].t = "num"
TonExpected(body) ==
    /\ body.t = "obj"
    /\ "result" \in DOMAIN body.o
    /\ ~IntRaises(body.o.result)

\* A body that parses to an object but lacks a member the client reads (a
\* null member counts as absent).
Absent(o, k) == k \notin DOMAIN o \/ o[k].t = "null"
BtcMissing(body) ==
    /\ body.t = "obj"
    /\ \/ Absent(body.o, "chain_stats")
       \/ /\ body.o.chain_stats.t = "obj"
          /\ \E k \in {"funded_txo_sum", "spent_txo_sum"} : Absent(body.o.chain_stats.o, k)
TonMissing(body) == body.t = "obj" /\ Absent(body.o, "result")

\* What went wrong with a backend call, "none" if nothing did: the library's
\* fault, an HTTP status other than 200, a body that is not JSON
\* ("unparseable"), a body without the promised members ("missing"), or one
\* whose members have the wrong type ("malformed").
FaultOf(op, out) ==
    IF out.fault # "none" THEN out.fault
    ELSE IF op \notin {"GET btc", "GET ton"} THEN "none"
    ELSE IF out.status # 200 THEN "http"
    ELSE IF out.body.t = "garbage" THEN "unparseable"
    ELSE IF op = "GET btc" /\ BtcMissing(out.body) THEN "missing"
    ELSE IF op = "GET ton" /\ TonMissing(out.body) THEN "missing"
    ELSE IF op = "GET btc" /\ ~BtcExpected(out.body) THEN "malformed"
    ELSE IF op = "GET ton" /\ ~TonExpected(out.body) THEN "malformed"
    ELSE "none"

Call(j, kind, op) ==
    [client |-> j.client, endpoint |-> Endpoint(j), contract |-> j.token_contract,
     address |-> j.address, kind |-> kind, op |-> op, st |-> "pending", status |-> 0,
     body |-> JNull]
Settle(log, st, status, body) ==
    IF log = <<>> THEN log
    ELSE [log EXCEPT ![Len(log)].st = st, ![Len(log)].status = status, ![Len(log)].body = body]

\* The process after import, with the selections `choice` made so far.
Started(choice) ==
    /\ web3 \in Web3Builds
    /\ user_choice = choice
    /\ pc = [u \in Users |-> "idle"]
    /\ token = [u \in Users |-> NoChoice]
    /\ address = [u \in Users |-> <<>>]
    /\ job = [u \in Users |-> NoJob]
    /\ at = [u \in Users |-> "none"]
    /\ bal = [u \in Users |-> 0]
    /\ calls = [u \in Users |-> <<>>]
    /\ cause = [u \in Users |-> "none"]
    /\ result = [u \in Users |-> NoResult]
    /\ sent = [u \in Users |-> <<>>]

Init == Started([u \in Users |-> NoChoice])

\* button_handler that records the pressed token for every user.
button_handler_All(u, t) ==
    /\ user_choice' = [v \in Users |-> t]
    /\ UNCHANGED <<web3, pc, token, address, job, at, bal, calls, cause, result, sent>>

\* button_handler: the user presses a token button.
button_handler(u, t) ==
    /\ user_choice' = [user_choice EXCEPT ![u] = t]
    /\ UNCHANGED <<web3, pc, token, address, job, at, bal, calls, cause, result, sent>>

\* handle_address that takes BNB for a user without a selection.
handle_address_Default(u, text) ==
    /\ pc[u] = "idle"
    /\ LET tok == IF user_choice[u] = NoChoice THEN "BNB" ELSE user_choice[u]
           addr == Strip(text)
           reject == FormatReject(tok, addr) IN
       /\ token' = [token EXCEPT ![u] = tok]
       /\ address' = [address EXCEPT ![u] = addr]
       /\ IF reject # ""
          THEN /\ sent' = [sent EXCEPT ![u] = <<Invalid(reject)>>]
               /\ pc' = [pc EXCEPT ![u] = "done"]
          ELSE /\ sent' = [sent EXCEPT ![u] = <<Checking>>]
               /\ pc' = [pc EXCEPT ![u] = "checking"]
    /\ UNCHANGED <<web3, user_choice, job, at, bal, calls, cause, result>>

\* handle_address up to its first suspension that is not a final reply: the
\* /start prompt, a format rejection, or the "Checking..." notice.
handle_address(u, text) ==
    /\ pc[u] = "idle"
    /\ IF user_choice[u] = NoChoice
       THEN /\ sent' = [sent EXCEPT ![u] = <<StartFirst>>]
            /\ pc' = [pc EXCEPT ![u] = "done"]
            /\ UNCHANGED <<token, address>>
       ELSE LET tok == user_choice[u]
                addr == Strip(text)
                reject == FormatReject(tok, addr) IN
            /\ token' = [token EXCEPT ![u] = tok]
            /\ address' = [address EXCEPT ![u] = addr]
            /\ IF reject # ""
               THEN /\ sent' = [sent EXCEPT ![u] = <<Invalid(reject)>>]
                    /\ pc' = [pc EXCEPT ![u] = "done"]
               ELSE /\ sent' = [sent EXCEPT ![u] = <<Checking>>]
                    /\ pc' = [pc EXCEPT ![u] = "checking"]
    /\ UNCHANGED <<web3, user_choice, job, at, bal, calls, cause, result>>

\* run_in_executor that looks the token up in user_choice again when it
\* dispatches.
run_in_executor_Reread(u) ==
    /\ pc[u] = "checking"
    /\ LET j == Dispatch(user_choice[u], address[u]) IN
       /\ job' = [job EXCEPT ![u] = j]
       /\ IF j = NoJob
          THEN /\ result' = [result EXCEPT ![u] = Msg(FALSE, "Unknown token selection.", "", <<>>)]
               /\ pc' = [pc EXCEPT ![u] = "returned"]
          ELSE /\ pc' = [pc EXCEPT ![u] = "queued"]
               /\ UNCHANGED result
    /\ UNCHANGED <<web3, user_choice, token, address, at, bal, calls, cause, sent>>

\* handle_address resumes after the notice and awaits run_in_executor(func,
\* *args) for its token; an unknown token gets its answer without a worker.
run_in_executor(u) ==
    /\ pc[u] = "checking"
    /\ LET j == Dispatch(token[u], address[u]) IN
       /\ job' = [job EXCEPT ![u] = j]
       /\ IF j = NoJob
          THEN /\ result' = [result EXCEPT ![u] = Msg(FALSE, "Unknown token selection.", "", <<>>)]
               /\ pc' = [pc EXCEPT ![u] = "returned"]
          ELSE /\ pc' = [pc EXCEPT ![u] = "queued"]
               /\ UNCHANGED result
    /\ UNCHANGED <<web3, user_choice, token, address, at, bal, calls, cause, sent>>

\* The worker takes step s of the job's client: it issues the next backend call
\* or returns.
Take(u, s, log) ==
    /\ at' = [at EXCEPT ![u] = s.at]
    /\ bal' = [bal EXCEPT ![u] = s.bal]
    /\ result' = [result EXCEPT ![u] = s.res]
    /\ pc' = [pc EXCEPT ![u] = IF s.esc THEN "crashed"
                               ELSE IF s.ret THEN "returned" ELSE "running"]
    /\ calls' = [calls EXCEPT ![u] =
                    IF s.ret THEN log ELSE Append(log, Call(job[u], token[u], s.at))]

\* A worker of the executor starts the queued job.
worker_start(u) ==
    /\ pc[u] = "queued"
    /\ \E s \in Run(web3, job[u], "start", 0, Returned(0)) : Take(u, s, calls[u])
    /\ UNCHANGED <<web3, user_choice, token, address, job, cause, sent>>

\* The client resumes with outcome out of the backend call it waits on.
Resume(u, out) ==
    LET f == FaultOf(at[u], out) IN
    /\ cause' = [cause EXCEPT ![u] = f]
    /\ \E s \in Run(web3, job[u], at[u], bal[u], out) :
          Take(u, s, Settle(calls[u], IF f = "none" THEN "ok" ELSE "failed", out.status, out.body))
    /\ UNCHANGED <<web3, user_choice, token, address, job, sent>>

\* The backend answers the outstanding call.
backend_answer(u) ==
    /\ pc[u] = "running"
    /\ \E out \in Answers(at[u]) : Resume(u, out)

\* call_timeout with one deadline shared by the workers: when it expires every
\* outstanding call is given up.
call_timeout_Shared(u) ==
    /\ pc[u] = "running"
    /\ pc' = [v \in Users |-> IF pc[v] = "running" THEN "returned" ELSE pc[v]]
    /\ at' = [v \in Users |-> IF pc[v] = "running" THEN "none" ELSE at[v]]
    /\ bal' = [v \in Users |-> IF pc[v] = "running" THEN 0 ELSE bal[v]]
    /\ cause' = [v \in Users |-> IF pc[v] = "running" THEN "timeout" ELSE cause[v]]
    /\ calls' = [v \in Users |-> IF pc[v] = "running" THEN Settle(calls[v], "failed", 0, JNull)
                                                      ELSE calls[v]]
    /\ result' = [v \in Users |-> IF pc[v] = "running"
                                  THEN Msg(FALSE, "RPC query error", "timeout", <<>>)
                                  ELSE result[v]]
    /\ UNCHANGED <<web3, user_choice, token, address, job, sent>>

\* The outstanding call's timeout expires.
call_timeout(u) ==
    /\ pc[u] = "running"
    /\ HasTimeout(at[u])
    /\ \E out \in Expiries(at[u]) : Resume(u, out)

\* reply that returns without sending the final message.
reply_Silent(u) ==
    /\ pc[u] = "returned"
    /\ pc' = [pc EXCEPT ![u] = "done"]
    /\ job' = [job EXCEPT ![u] = NoJob]
    /\ calls' = [calls EXCEPT ![u] = <<>>]
    /\ cause' = [cause EXCEPT ![u] = "none"]
    /\ result' = [result EXCEPT ![u] = NoResult]
    /\ UNCHANGED <<web3, user_choice, token, address, at, bal, sent>>

\* handle_address resumes with (ok, info), sends the final reply and returns;
\* the finished job is dropped.
reply(u) ==
    /\ pc[u] = "returned"
    /\ sent' = [sent EXCEPT ![u] = Append(@, result[u])]
    /\ pc' = [pc EXCEPT ![u] = "done"]
    /\ job' = [job EXCEPT ![u] = NoJob]
    /\ calls' = [calls EXCEPT ![u] = <<>>]
    /\ cause' = [cause EXCEPT ![u] = "none"]
    /\ result' = [result EXCEPT ![u] = NoResult]
    /\ UNCHANGED <<web3, user_choice, token, address, at, bal>>

\* The handler has returned (or an exception ended it); the user's next text
\* message starts a new submission.
next_update(u) ==
    /\ pc[u] \in {"done", "crashed"}
    /\ pc' = [pc EXCEPT ![u] = "idle"]
    /\ token' = [token EXCEPT ![u] = NoChoice]
    /\ address' = [address EXCEPT ![u] = <<>>]
    /\ job' = [job EXCEPT ![u] = NoJob]
    /\ calls' = [calls EXCEPT ![u] = <<>>]
    /\ cause' = [cause EXCEPT ![u] = "none"]
    /\ result' = [result EXCEPT ![u] = NoResult]
    /\ sent' = [sent EXCEPT ![u] = <<>>]
    /\ UNCHANGED <<web3, user_choice, at, bal>>

\* The application built in __main__ takes the next text message only when
\* the handler of the previous one has returned.
Serial(u) == \A v \in Users \ {u} : pc[v] = "idle"

Work ==
    \/ \E u \in Users : run_in_executor(u)
    \/ \E u \in Users : worker_start(u)
    \/ \E u \in Users : backend_answer(u)
    \/ \E u \in Users : call_timeout(u)
    \/ \E u \in Users : reply(u)
    \/ \E u \in Users : next_update(u)

Next ==
    \/ \E u \in Users, t \in Tokens : button_handler(u, t)
    \/ \E u \in Users, text \in Texts : Serial(u) /\ handle_address(u, text)
    \/ Work

Spec == Init /\ [][Next]_vars

\* The event loop resumes a handler that can run, the executor runs a queued
\* job, and an outstanding call's timeout expires; a backend need not answer.
FairSpec ==
    /\ Spec
    /\ \A u \in Users :
          /\ WF_vars(run_in_executor(u))
          /\ WF_vars(worker_start(u))
          /\ WF_vars(call_timeout(u))
          /\ WF_vars(reply(u))

\* Overlapping submissions: every user has selected the same token and the
\* users' submissions interleave freely.
ConcInit == \E k \in Tokens : Started([u \in Users |-> k])
ConcNext ==
    \/ \E u \in Users, text \in Texts : handle_address(u, text)
    \/ Work

ConcSpec == ConcInit /\ [][ConcNext]_vars

\* Message texts at the edges of the three formats.
Ox == <<"0", "x">>
Bc1 == <<"b", "c", "1">>
EvmTexts ==
    {EvmGood, <<"\t">> \o EvmGood \o <<" ">>, Ox \o Rep("0", 20) \o Rep("9", 20),
     Ox \o Rep("a", 39), Ox \o Rep("a", 41), Ox \o Rep("a", 39) \o <<"g">>,
     Ox \o <<"G">> \o Rep("a", 39), Ox \o Rep("a", 20) \o <<" ">> \o Rep("a", 19),
     <<"0", "X">> \o Rep("a", 40), Rep("0", 42), Rep("a", 40), Ox, <<>>}
BtcTexts ==
    {BtcGood, <<"1">> \o Rep("A", 24), <<"1">> \o Rep("A", 39), <<"1">> \o Rep("A", 40),
     <<"3">> \o Rep("z", 25), <<"2">> \o Rep("A", 25),
     Bc1 \o Rep("q", 24), Bc1 \o Rep("q", 25), Bc1 \o Rep("q", 39), Bc1 \o Rep("q", 40),
     <<"1">> \o Rep("A", 24) \o <<"0">>, <<"1">> \o Rep("A", 24) \o <<"l">>,
     <<"1">> \o Rep("A", 24) \o <<"I">>, <<"3", "O">> \o Rep("A", 24),
     Bc1 \o Rep("q", 24) \o <<"0">>, Bc1 \o Rep("q", 12) \o <<"O">> \o Rep("q", 12),
     <<"1">> \o Rep("A", 24) \o <<"_">>}
TonTexts ==
    {TonGood, <<"U", "Q">> \o Rep("a", 45) \o <<"-">>, <<"E", "Q">> \o Rep("a", 45),
     <<"E", "Q">> \o Rep("a", 47), <<"e", "q">> \o Rep("a", 46),
     <<"E", "Q">> \o Rep("a", 45) \o <<"+">>}
FormatTexts == EvmTexts \cup BtcTexts \cup TonTexts

\* The format checks on their own: any selections have been made, the users
\* submit the texts above one at a time, and a submission is followed up to the
\* end of its format check.
FormatInit == \E choice \in [Users -> Tokens \cup {NoChoice}] : Started(choice)
FormatNext ==
    \/ \E u \in Users, text \in FormatTexts : Serial(u) /\ handle_address(u, text)
    \/ \E u \in Users : next_update(u)

FormatSpec == FormatInit /\ [][FormatNext]_vars

\* ================================================================== properties
InFlight(u) == pc[u] \in {"checking", "queued", "running", "returned"}

\* The format the validator demands of each asset kind.
Accepts(kind, addr) ==
    \/ kind \in {"BNB", "ETH", "USDT"} /\ RE_EVM(addr)
    \/ kind = "BTC" /\ RE_BTC(addr)
    \/ kind = "TON" /\ RE_TON(addr)
InvalidReplies ==
    {Invalid("Invalid EVM-style address format"), Invalid("Invalid BTC address format"),
     Invalid("Invalid TON address format")}

\* C1: a chain client is invoked for an address only if the validator accepted
\* that address for the kind the check is dispatched with (every backend call
\* logged, every job bound and every submission past the format checks carries
\* an accepted address); a submission whose address fails validation for its
\* kind ends with exactly the invalid-format reply and has made no backend call.
C1_ValidatedBeforeClient ==
    \A u \in Users :
        /\ \A i \in 1..Len(calls[u]) :
              /\ calls[u][i].kind = token[u]
              /\ calls[u][i].address = address[u]
              /\ Accepts(calls[u][i].kind, calls[u][i].address)
        /\ job[u] # NoJob => job[u].address = address[u] /\ Accepts(token[u], address[u])
        /\ InFlight(u) => Accepts(token[u], address[u])
        /\ (pc[u] = "done" /\ token[u] # NoChoice /\ ~Accepts(token[u], address[u]))
              => /\ Len(sent[u]) = 1
                 /\ sent[u][1] \in InvalidReplies
                 /\ calls[u] = <<>>
\* C1 witness: a backend call is outstanding for a TON address.
C1_Witness ==
    \E u \in Users : pc[u] = "running" /\ token[u] = "TON" /\ Len(calls[u]) = 1
                     /\ calls[u][1].address = TonGood

IsOutcome(m) == m \notin {Checking, NoResult}
\* C2 as stated: every handled submission has been sent exactly one message.
C2_ExactlyOneMessage == \A u \in Users : pc[u] = "done" => Len(sent[u]) = 1
\* C2 amended: every handled submission has been sent exactly one outcome
\* message (a success with its balance or a failure), as its last message; a
\* submission that passed the format checks was sent the "Checking..." notice
\* before it, and no other message; while a check is in flight the notice is
\* the only message sent.
C2_OneOutcomeMessage ==
    \A u \in Users :
        /\ InFlight(u) => sent[u] = <<Checking>>
        /\ pc[u] = "done" =>
              /\ Len(sent[u]) \in {1, 2}
              /\ IsOutcome(sent[u][Len(sent[u])])
              /\ sent[u][Len(sent[u])].cat # ""
              /\ Len(sent[u]) = 2 <=> sent[u][1] = Checking
              /\ Len(sent[u]) = 2 <=> (token[u] # NoChoice /\ Accepts(token[u], address[u]))
\* C2 witness: a submission answered with the notice and then a success.
C2_Witness ==
    \E u \in Users : pc[u] = "done" /\ Len(sent[u]) = 2 /\ sent[u][2].ok

\* The client and endpoint each asset kind is bound to.
BoundJob(kind, addr) ==
    CASE kind = "BNB" -> Job("sync_check_rpc_native", addr, BSC_RPC, NoArg)
      [] kind = "ETH" -> Job("sync_check_rpc_native", addr, ETH_RPC, NoArg)
      [] kind = "USDT" -> Job("sync_check_rpc_token", addr, BSC_RPC, USDT_BSC_CONTRACT)
      [] kind = "BTC" -> Job("sync_check_btc", addr, NoArg, NoArg)
      [] kind = "TON" -> Job("sync_check_ton", addr, NoArg, NoArg)
BoundEndpoint(kind) ==
    CASE kind \in {"BNB", "USDT"} -> BSC_RPC
      [] kind = "ETH" -> ETH_RPC
      [] kind = "BTC" -> BTC_API_BASE
      [] kind = "TON" -> TON_API_BASE
ClientOps(client) ==
    CASE client = "sync_check_rpc_native" ->
            {"is_connected", "isConnected", "get_balance", "get_transaction_count"}
      [] client = "sync_check_rpc_token" -> {"is_connected", "isConnected", "balanceOf"}
      [] client = "sync_check_btc" -> {"GET btc"}
      [] client = "sync_check_ton" -> {"GET ton"}

\* C5: the client a check runs is determined by its asset kind alone: BNB and
\* ETH run the EVM native client on the BSC and ETH endpoints, USDT the token
\* client on the BSC endpoint with the configured contract, BTC and TON their
\* REST clients; every backend call goes to that client's endpoint with that
\* client's operations.
C5_ClientByKind ==
    \A u \in Users :
        /\ job[u] # NoJob => token[u] \in Tokens /\ job[u] = BoundJob(token[u], address[u])
        /\ \A i \in 1..Len(calls[u]) :
              LET c == calls[u][i] IN
              /\ c.client = BoundJob(c.kind, c.address).client
              /\ c.endpoint = BoundEndpoint(c.kind)
              /\ c.contract = BoundJob(c.kind, c.address).token_contract
              /\ c.op \in ClientOps(c.client)
\* C5 witness: an ETH check has called the ETH endpoint.
C5_Witness ==
    \E u \in Users : token[u] = "ETH" /\ calls[u] # <<>> /\ calls[u][1].endpoint = ETH_RPC

C4_EventuallyReported ==
    \A u \in Users :
        (pc[u] = "checking") ~> (pc[u] = "done" /\ Len(sent[u]) = 2 /\ IsOutcome(sent[u][2]))
\* C4 witness: a check whose call timed out has been answered.
C4_Witness ==
    \E u \in Users : pc[u] = "done" /\ Len(sent[u]) = 2 /\ sent[u][2].err = "timeout"

Slot(u) == <<pc[u], token[u], address[u], job[u], at[u], bal[u], calls[u], cause[u],
             result[u], sent[u]>>
C7_NoCallAfterFailure ==
    \A u \in Users : \A i \in 1..(Len(calls[u]) - 1) : calls[u][i].st = "ok"

\* The three kinds of failure that need different remediation.
Kind(c) ==
    CASE c = "unreachable" -> "unreachable endpoint"
      [] c = "timeout" -> "timeout"
      [] c \in {"unparseable", "malformed", "missing"} -> "malformed upstream response"
      [] OTHER -> "other"
\* C8 as stated: two checks that failed for different ones of the kinds
\* unreachable endpoint, malformed upstream response and timeout report
\* different reasons.
C8_ReasonsDistinguish ==
    \A u, v \in Users :
        (/\ pc[u] = "returned" /\ pc[v] = "returned"
         /\ ~result[u].ok /\ ~result[v].ok
         /\ Kind(cause[u]) # "other" /\ Kind(cause[v]) # "other"
         /\ Kind(cause[u]) # Kind(cause[v]))
        => <<result[u].cat, result[u].err>> # <<result[v].cat, result[v].err>>

HttpReplies == {"BTC API HTTP", "TON API HTTP"}
\* C9: a REST client that received a status other than 200 returns a failure
\* that names the HTTP status failure and carries the code; a REST client that
\* received a 200 whose body is not JSON returns a failure that is not an HTTP
\* status failure.
C9_HttpStatusDistinct ==
    \A u \in Users :
        (pc[u] = "returned" /\ job[u].client \in {"sync_check_btc", "sync_check_ton"}) =>
            LET last == calls[u][Len(calls[u])] IN
            /\ last.status \notin {0, 200} =>
                  /\ ~result[u].ok
                  /\ result[u].cat \in HttpReplies
                  /\ result[u].val = <<last.status>>
            /\ (last.status = 200 /\ cause[u] = "unparseable") =>
                  ~result[u].ok /\ result[u].cat \notin HttpReplies
\* C9 witness: a BTC check has returned on a status other than 200.
C9_Witness ==
    \E u \in Users : /\ pc[u] = "returned" /\ job[u].client = "sync_check_btc"
                     /\ calls[u][1].status \in HttpErrors /\ result[u].cat = "BTC API HTTP"

\* C10 as stated: a REST client that received a 200 whose body lacks the
\* balance members returns a failure, never a success.
C10_MissingFieldFails ==
    \A u \in Users :
        (/\ pc[u] = "returned"
         /\ job[u].client \in {"sync_check_btc", "sync_check_ton"}
         /\ cause[u] = "missing")
        => ~result[u].ok

\* C11: user_choice is written only by button_handler: a press of token t by
\* user u makes u's entry t and changes no other entry; a step that changes an
\* entry changes exactly that one entry, to a token, and nothing of any
\* submission (so no submission step and no client step writes it); an entry
\* once created is never removed.
C11_OnlySelectionWrites ==
    /\ [](\A u \in Users, t \in Tokens :
            /\ ENABLED button_handler(u, t)
            /\ ~ENABLED (button_handler(u, t)
                         /\ user_choice' # [user_choice EXCEPT ![u] = t]))
    /\ [][\A u \in Users :
            /\ user_choice[u] # NoChoice => user_choice'[u] # NoChoice
            /\ user_choice'[u] # user_choice[u] =>
                  /\ user_choice'[u] \in Tokens
                  /\ \A v \in Users \ {u} : user_choice'[v] = user_choice[v]
                  /\ \A v \in Users : Slot(v)' = Slot(v)]_vars
\* C11 witness: one user's selection has outlived a handled submission of
\* theirs while another user has never selected.
C11_Witness ==
    \E u, v \in Users :
        /\ user_choice[u] = "BTC" /\ token[u] = "BTC" /\ pc[u] = "done"
        /\ Len(sent[u]) = 2 /\ user_choice[v] = NoChoice

\* The characters 0-9, a-f and A-F.
HexDigits == {"0", "1", "2", "3", "4", "5", "6", "7", "8", "9",
              "a", "b", "c", "d", "e", "f", "A", "B", "C", "D", "E", "F"}
IsOx40Hex(s) == /\ Len(s) = 42
                /\ s[1] = "0" /\ s[2] = "x"
                /\ \A i \in 3..42 : s[i] \in HexDigits
\* C12: for BNB, ETH and USDT a submitted string passes the format check if
\* and only if it is "0x" followed by exactly 40 hexadecimal characters of
\* either case (39 or 41 are rejected, as is any other character in the
\* tail); a string that does not pass is answered with the EVM-format reply.
C12_EvmFormat ==
    \A u \in Users :
        (token[u] \in {"BNB", "ETH", "USDT"} /\ pc[u] \in {"checking", "done"}) =>
            /\ pc[u] = "checking" <=> IsOx40Hex(address[u])
            /\ pc[u] = "checking" => sent[u] = <<Checking>>
            /\ pc[u] = "done" => sent[u] = <<Invalid("Invalid EVM-style address format")>>
\* C12 witness: "0x" followed by 41 hexadecimal characters has been rejected.
C12_Witness ==
    \E u \in Users : /\ token[u] = "USDT" /\ pc[u] = "done"
                     /\ Len(address[u]) = 43
                     /\ SubSeq(address[u], 1, 2) = <<"0", "x">>
                     /\ \A i \in 3..43 : address[u][i] \in HexDigits

\* The characters of a BTC text after its prefix "bc1", "1" or "3"; no tail
\* when the text has none of these prefixes.
HasBtcPrefix(s) == s # <<>> /\ (s[1] \in {"1", "3"} \/ StartsWith(s, Bc1))
TailOf(s) == IF s[1] \in {"1", "3"} THEN SubSeq(s, 2, Len(s)) ELSE SubSeq(s, 4, Len(s))
TailHas(s, chars) == HasBtcPrefix(s) /\ \E i \in 1..Len(TailOf(s)) : TailOf(s)[i] \in chars
Checked(u, kind) == token[u] = kind /\ pc[u] \in {"checking", "done"}
\* C13 as stated: for BTC a string whose tail contains 0, I, O or l is
\* rejected.
C13_RejectsNonBase58 ==
    \A u \in Users :
        (Checked(u, "BTC") /\ TailHas(address[u], {"0", "I", "O", "l"})) => pc[u] = "done"
\* C13 amended: for BTC a string whose tail contains I or O is rejected with
\* the BTC-format reply; 0 and l are accepted like any other digit or letter:
\* a string passes if and only if its tail is 25 to 39 digits and letters other
\* than I and O.
C13_RejectsIAndO ==
    \A u \in Users :
        Checked(u, "BTC") =>
            /\ TailHas(address[u], {"I", "O"}) =>
                  pc[u] = "done" /\ sent[u] = <<Invalid("Invalid BTC address format")>>
            /\ pc[u] = "checking" <=>
                  /\ HasBtcPrefix(address[u])
                  /\ Len(TailOf(address[u])) \in 25..39
                  /\ ~TailHas(address[u], {"I", "O"})
                  /\ \A i \in 1..Len(TailOf(address[u])) :
                        TailOf(address[u])[i] \in Digits \cup Lower \cup Upper
\* C13 witness: a "bc1" text with an O in its tail has been rejected.
C13_Witness ==
    \E u \in Users : /\ Checked(u, "BTC") /\ pc[u] = "done"
                     /\ StartsWith(address[u], Bc1)
                     /\ TailHas(address[u], {"O"})
                     /\ ~TailHas(address[u], {"0", "I", "l", "_"})
                     /\ Len(TailOf(address[u])) = 25

Queries == {"get_balance", "get_transaction_count", "balanceOf"}
EvmClients == {"sync_check_rpc_native", "sync_check_rpc_token"}
\* C14: in both EVM clients a query (get_balance, get_transaction_count,
\* balanceOf) is issued only after a liveness probe of the same invocation
\* returned connected; an invocation whose last probe returned not-connected,
\* raised, or timed out returns "Cannot connect to RPC node" and has issued no
\* query.
C14_ProbeBeforeQuery ==
    \A u \in Users :
        /\ \A i \in 1..Len(calls[u]) :
              calls[u][i].op \in Queries =>
                  \E j \in 1..(i - 1) : IsProbe(calls[u][j].op) /\ calls[u][j].st = "ok"
        /\ (/\ pc[u] = "returned" /\ job[u].client \in EvmClients /\ calls[u] # <<>>
            /\ IsProbe(calls[u][Len(calls[u])].op)
            /\ calls[u][Len(calls[u])].st = "failed")
              => /\ result[u] = Msg(FALSE, "Cannot connect to RPC node", "", <<>>)
                 /\ \A i \in 1..Len(calls[u]) : calls[u][i].op \notin Queries
\* C14 witness: a token check in which both probe spellings failed has
\* returned without a query.
C14_Witness ==
    \E u \in Users :
        /\ pc[u] = "returned" /\ job[u].client = "sync_check_rpc_token"
        /\ Len(calls[u]) = 2
        /\ calls[u][1].op = "is_connected" /\ calls[u][1].st = "failed"
        /\ calls[u][2].op = "isConnected" /\ calls[u][2].st = "failed"
        /\ result[u].cat = "Cannot connect to RPC node"

Ops(u) == [i \in 1..Len(calls[u]) |-> calls[u][i].op]
ProbeRuns == {<<>>, <<"is_connected">>, <<"isConnected">>, <<"is_connected", "isConnected">>}
QueryRun(client) ==
    IF client = "sync_check_rpc_native" THEN <<"get_balance", "get_transaction_count">>
    ELSE <<"balanceOf">>
\* C15 as stated: every client invocation has made exactly one backend call
\* when it returns.
C15_ExactlyOneRoundTrip ==
    \A u \in Users : (pc[u] = "returned" /\ job[u] # NoJob) => Len(calls[u]) = 1
\* C15 amended: a REST client invocation (BTC, TON) has made exactly one
\* backend call, its GET, when it returns.  An EVM client invocation has made
\* none, or one or two liveness probes followed by a prefix of its queries
\* (get_balance then get_transaction_count for native, balanceOf for token);
\* one that returns a success has made all of its queries.
C15_RoundTripsPerClient ==
    \A u \in Users :
        (pc[u] = "returned" /\ job[u] # NoJob) =>
            IF job[u].client \in EvmClients
            THEN /\ \E p \in ProbeRuns, n \in 0..Len(QueryRun(job[u].client)) :
                       /\ Ops(u) = p \o SubSeq(QueryRun(job[u].client), 1, n)
                       /\ n > 0 => p # <<>>
                       /\ result[u].ok => n = Len(QueryRun(job[u].client))
                 /\ Len(calls[u]) <= 2 + Len(QueryRun(job[u].client))
            ELSE Ops(u) \in {<<"GET btc">>, <<"GET ton">>}
\* C15 witness: a native check has returned after two probes and both queries.
C15_Witness ==
    \E u \in Users :
        /\ pc[u] = "returned" /\ job[u].client = "sync_check_rpc_native"
        /\ Len(calls[u]) = 4 /\ result[u].ok

\* The last backend call of u's invocation, with the response it got.
LastCall(u) == calls[u][Len(calls[u])]
\* C16: a BTC client that received a 200 response whose chain_stats carries
\* the numbers funded_txo_sum and spent_txo_sum returns a success whose
\* balance is funded_txo_sum - spent_txo_sum, a negative number when spent
\* exceeds funded.
C16_BtcSignedBalance ==
    \A u \in Users :
        (/\ pc[u] = "returned" /\ job[u].client = "sync_check_btc"
         /\ LastCall(u).status = 200 /\ BtcExpected(LastCall(u).body))
        => LET stats == LastCall(u).body.o.chain_stats.o IN
           result[u] = Msg(TRUE, "Balance BTC", "",
                           <<stats.funded_txo_sum.n - stats.spent_txo_sum.n>>)
\* C16 witness: a BTC check whose response had spent above funded has
\* returned a success with a negative balance.
C16_Witness ==
    \E u \in Users :
        /\ pc[u] = "returned" /\ job[u].client = "sync_check_btc"
        /\ LastCall(u).status = 200 /\ BtcExpected(LastCall(u).body)
        /\ LastCall(u).body.o.chain_stats.o.spent_txo_sum.n
              > LastCall(u).body.o.chain_stats.o.funded_txo_sum.n
        /\ result[u].ok /\ result[u].val[1] < 0

\* The fixed parts of the results each asset kind's client can return.
ResultsOf(kind) ==
    CASE kind \in {"BNB", "ETH"} ->
            {"web3 not installed in environment", "web3 provider init error",
             "Cannot connect to RPC node", "RPC query error", "Balance (native), txs"}
      [] kind = "USDT" ->
            {"web3 not installed in environment", "web3 provider init error",
             "Cannot connect to RPC node", "Token query error",
             "Token balance (raw), display approx"}
      [] kind = "BTC" -> {"BTC API HTTP", "BTC API error", "Balance BTC"}
      [] kind = "TON" -> {"TON API HTTP", "TON API error", "TON API result missing",
                         "Balance TON"}
\* C17: a submission's asset kind is the user's selection at the moment the
\* submission is handled and stays that until the submission is over; the
\* format check, the job, every backend call and the result are those of this
\* kind, whatever the user selects meanwhile; a selection change alters
\* nothing of the in-flight check.
C17_KindReadOnce ==
    /\ [](\A u \in Users :
            /\ InFlight(u) => token[u] \in Tokens /\ Accepts(token[u], address[u])
            /\ job[u] # NoJob => job[u] = BoundJob(token[u], address[u])
            /\ \A i \in 1..Len(calls[u]) :
                  /\ calls[u][i].kind = token[u]
                  /\ calls[u][i].client = BoundJob(token[u], address[u]).client
                  /\ calls[u][i].endpoint = BoundEndpoint(token[u])
            /\ pc[u] = "returned" => result[u].cat \in ResultsOf(token[u]))
    /\ [][\A u \in Users :
            /\ (pc[u] = "idle" /\ pc'[u] # "idle" /\ user_choice[u] # NoChoice)
                  => token'[u] = user_choice[u]
            /\ (pc[u] # "idle" /\ pc'[u] # "idle")
                  => token'[u] = token[u] /\ address'[u] = address[u]
            /\ (InFlight(u) /\ job[u] # NoJob /\ InFlight(u)') => job'[u] = job[u]
            /\ user_choice'[u] # user_choice[u] => Slot(u)' = Slot(u)]_vars
\* C17 witness: a BTC check has returned a balance after its user selected
\* ETH while it was in flight.
C17_Witness ==
    \E u \in Users :
        /\ pc[u] = "returned" /\ token[u] = "BTC" /\ user_choice[u] = "ETH"
        /\ job[u].client = "sync_check_btc" /\ result[u].cat = "Balance BTC"

\* C18: a submission from a user without an entry in user_choice is answered
\* with the /start prompt and nothing else: the handler returns at once, no
\* kind or address is taken for a format check, no "Checking..." notice is
\* sent, no job is bound and no backend call made, and user_choice is left as
\* it was.
C18_NoSelectionPromptOnly ==
    /\ [][\A u \in Users :
            (pc[u] = "idle" /\ pc'[u] # "idle" /\ user_choice[u] = NoChoice) =>
                /\ pc'[u] = "done"
                /\ sent'[u] = <<StartFirst>>
                /\ token'[u] = NoChoice /\ address'[u] = <<>>
                /\ job'[u] = NoJob /\ calls'[u] = <<>> /\ result'[u] = NoResult
                /\ user_choice' = user_choice]_vars
    /\ [](\A u \in Users :
            (pc[u] # "idle" /\ token[u] = NoChoice) =>
                /\ pc[u] = "done"
                /\ sent[u] = <<StartFirst>>
                /\ job[u] = NoJob /\ calls[u] = <<>>)
\* C18 witness: a user who has never selected has been sent the prompt.
C18_Witness ==
    \E u \in Users : /\ user_choice[u] = NoChoice /\ pc[u] = "done"
                     /\ token[u] = NoChoice /\ sent[u] = <<StartFirst>>

====
